---- MODULE Spec2Model ----
(***************************************************************************)
(* Host side of the speech-emotion demo (02_Arduino_Nano_Inference.ipynb): *)
(* serial activation, microphone calibration, the arduino_read refill of   *)
(* the sample window, normalize, the masked arg-max decision and the       *)
(* asyncio round scheduler tflite_run.                                     *)
(*                                                                         *)
(* Numbers.  Every value a numpy buffer holds is written as an integer     *)
(* count of 2^-24, the grid on which every finite float16 lies: the raw    *)
(* sample k is k * Scale, 1.0 is Scale.  Time is counted in ticks of 0.2 s.*)
(***************************************************************************)
EXTENDS Integers, Sequences, FiniteSets

\* ---------------------------------------------------------------- bounds
\* np.zeros(BUFFER_SIZE): 24000 in the notebook, scaled down
BUFFER_SIZE == 2
\* 512 in the notebook, scaled down
OVERLAPPED == 1
\* tflite_run(rounds=10), scaled down
rounds == 2
\* arduino_read(..., max_attempts=10), scaled down
max_attempts == 2
\* the calibration capture np.zeros(48000), scaled down
TuningSize == 2
\* the peer's samples are drawn from -MaxRaw, 0 and MaxRaw
MaxRaw == 1
\* length of the buffers the stand-alone refill is tried on
RefillSize == 3
\* probabilities are drawn from 0..MaxProb (in units of 10^-4)
MaxProb == 4

\* the peer: bytes on the line, samples per interrupt, samples in all
MaxBytes == 3

MaxBatch == 2

MaxCaptured == 3

\* ------------------------------------------------------------- constants
\* one float16 step below 2^-14, as a divisor of 1.0: 2^24
Scale == 16777216
\* time.sleep(0.6) between two launches, in ticks of 0.2 s
LaunchSleep == 3
\* serial.Serial(..., timeout=1): a readline that gets nothing returns
\* b'' after 1 s, in ticks of 0.2 s
ReadTimeout == 5

EMOTIONS == <<"neutral", "happy", "surprise", "unpleasant">>
COMMANDS == <<"a", "b", "c", "d">>
RECOG_MASK == <<1, 30000, 40000, 500>>

VARIABLES
    pc,          \* which notebook cell / statement the kernel is at
    arduino,     \* the global handle: "unset", "open" or "None"
    tx,          \* bytes written to the serial link, in order
    cal,         \* the arduino_read activation of the main program
    TUNING_MAX,  \* calibration range (valid once tuned)
    TUNING_MIN,
    tuned,       \* TUNING_MAX / TUNING_MIN are bound in the kernel
    tasks,       \* the asyncio tasks of tflite_run, by launch number
    ready,       \* the event loop's ready queue (0 is the main coroutine)
    turn,        \* tflite_run's loop variable: rounds launched so far
    clock,       \* time.time() - start_time, in ticks
    longest,     \* longest duration of a finished round, in ticks
    report,      \* the elapsed time printed, or -1
    prevWindow,  \* the window the latest finished round processed
    call,        \* a single call of a pure function, with its result
    capture,     \* what the calibration capture received so far
    \* the peer (data_streaming sketch)
    record,       \* bool record
    led,          \* levels of the pins LEDR, LEDG, LEDB
    ppc,          \* where loop() is
    rxn,          \* how many bytes of tx Serial.read() has returned
    samplesRead,  \* volatile int samplesRead
    sampleBuffer, \* short sampleBuffer[], by capture number
    idx,          \* the print loop's i
    lines,        \* the sample lines printed, by capture number
    captured,     \* per sample the microphone delivered: was record set
    stopped       \* record went from true to false at some time

peerVars == <<record, led, ppc, rxn, samplesRead, sampleBuffer, idx, lines,
              captured, stopped>>

vars == <<pc, arduino, tx, cal, TUNING_MAX, TUNING_MIN, tuned, tasks, ready,
          turn, clock, longest, report, prevWindow, call, capture, peerVars>>

\* ------------------------------------------------------------ arithmetic
Abs(x) == IF x < 0 THEN -x ELSE x

Max2(a, b) == IF a >= b THEN a ELSE b

\* IEEE division results that are no finite number
PosInf == 64 * Scale
NegInf == -PosInf
NaN == PosInf + 1

IsFinite(v) == v # PosInf /\ v # NegInf /\ v # NaN

\* n / d rounded to the nearest integer, ties to even (n >= 0, d > 0)
RoundHalfEven(n, d) ==
    LET q == n \div d
        r == n % d
    IN  IF 2 * r < d THEN q
        ELSE IF 2 * r > d THEN q + 1
        ELSE IF q % 2 = 0 THEN q ELSE q + 1

\* the float16 spacing at n / d >= 2048 (n >= 0, d > 0): 11 significant
\* bits, so the smallest power of two u with n / d < 2048 u
RECURSIVE Float16Ulp(_, _, _)
Float16Ulp(n, d, u) ==
    IF n < 2048 * d * u THEN u ELSE Float16Ulp(n, d, 2 * u)

\* the float16 spacing at n / d < 2048 is 1 / s for the largest power of
\* two s with s * n / d < 2048, and never below 2^-24
RECURSIVE Float16Shift(_, _, _)
Float16Shift(n, d, s) ==
    IF s < Scale /\ 2 * n * s < 2048 * d
    THEN Float16Shift(n, d, 2 * s) ELSE s

\* .astype(np.float16) of the exact quotient N / D (D # 0), in counts of
\* 2^-24; the quotients that occur are below 64
Float16(N, D) ==
    LET n == Abs(N)
        d == Abs(D)
        m == IF n >= 2048 * d
             THEN LET u == Float16Ulp(n, d, 1)
                  IN  RoundHalfEven(n, d * u) * u * Scale
             ELSE LET s == Float16Shift(n, d, 1)
                  IN  RoundHalfEven(n * s, d) * (Scale \div s)
    IN  IF (N < 0) # (D < 0) THEN -m ELSE m

\* normalize(array, new_max, new_min, old_max, old_min): the arguments are
\* integers, the result is on the float16 grid.  numpy scalars divide by
\* zero to inf / nan.
\* variant: new_max is added where new_min belongs
normalizeWrongOffset(array, new_max, new_min, old_max, old_min) ==
    LET D == old_max - old_min
        num == (array - old_min) * (new_max - new_min)
    IN  IF D = 0
        THEN (IF num = 0 THEN NaN ELSE IF num > 0 THEN PosInf ELSE NegInf)
        ELSE Float16(num + new_max * D, D)

normalize(array, new_max, new_min, old_max, old_min) ==
    LET D == old_max - old_min
        num == (array - old_min) * (new_max - new_min)
    IN  IF D = 0
        THEN (IF num = 0 THEN NaN ELSE IF num > 0 THEN PosInf ELSE NegInf)
        ELSE Float16(num + new_min * D, D)

\* np.roll(a, shift) on a 1-d array: the last shift entries, then the rest
\* variant: the first shift entries go last (a left rotation)
np_rollLeft(a, shift) ==
    LET n == Len(a)
        s == IF n = 0 THEN 0 ELSE shift % n
    IN  SubSeq(a, s + 1, n) \o SubSeq(a, 1, s)

np_roll(a, shift) ==
    LET n == Len(a)
        s == IF n = 0 THEN 0 ELSE shift % n
    IN  SubSeq(a, n - s + 1, n) \o SubSeq(a, 1, n - s)

np_zeros(n) == [k \in 1..n |-> 0]

\* variant: the first entry in place of the largest
SeqMaxOfFirst(s) == s[1]

RECURSIVE SeqMax(_)
SeqMax(s) == IF Len(s) = 1 THEN s[1] ELSE Max2(s[1], SeqMax(Tail(s)))

RECURSIVE SeqMin(_)
SeqMin(s) ==
    IF Len(s) = 1 THEN s[1]
    ELSE LET m == SeqMin(Tail(s)) IN IF s[1] <= m THEN s[1] ELSE m

\* ----------------------------------------------------------- serial input
RawVals == {-MaxRaw, 0, MaxRaw}

\* what arduino.readline() can return: b'' at the timeout, an empty line,
\* a line that is no number, the decimal line of a sample
Lines ==
    {[kind |-> "timeout", n |-> 0], [kind |-> "blank", n |-> 0],
     [kind |-> "text", n |-> 0]}
    \cup {[kind |-> "num", n |-> k] : k \in RawVals}

\* arduino_data[:len(arduino_data)].decode("utf-8").strip('\r\n')
Decode(line) ==
    IF line.kind \in {"timeout", "blank"}
    THEN [kind |-> "empty", n |-> 0]
    ELSE line

\* how long the readline blocked
ReadTicks(line) == IF line.kind = "timeout" THEN ReadTimeout ELSE 0

\* ------------------------------------------------------------ arduino_read
NoNorm == [set |-> FALSE, mx |-> 0, mn |-> 0]

Norm(mx, mn) == [set |-> TRUE, mx |-> mx, mn |-> mn]

NoFrame ==
    [buffer |-> <<>>, arg |-> <<>>, buffer_size |-> 0, overlapping |-> 0,
     norm |-> NoNorm, i |-> 0, attempts |-> 0, status |-> "none",
     got |-> <<>>, fail |-> FALSE, check |-> FALSE, reads |-> 0]

\* lines 156-157: the call, up to the first readline
ArduinoReadCall(buffer, buffer_size, overlapping, norm) ==
    [buffer |-> np_roll(buffer, overlapping), arg |-> buffer,
     buffer_size |-> buffer_size, overlapping |-> overlapping,
     norm |-> norm, i |-> 0, attempts |-> 0,
     status |-> IF buffer_size - overlapping <= 0
                THEN "returned" ELSE "reading",
     got |-> <<>>, fail |-> FALSE, check |-> FALSE, reads |-> 0]

\* the index the slot's value is stored at (1-based)
\* variant: buffer[i] in place of buffer[i+overlapping]
StoreIndexNoOffset(i, overlapping) == i + 1

StoreIndex(i, overlapping) == i + overlapping + 1

\* lines 168-173 for the token d the while loop ended with; failed says
\* whether the loop printed 'Fail to Retrieve Data...'
SlotStore(f, d, failed) ==
    LET g == [f EXCEPT !.got = Append(@, d), !.fail = failed,
                       !.check = FALSE, !.attempts = 0]
        last == f.i + 1 >= f.buffer_size - f.overlapping
        next == [g EXCEPT !.i = f.i + 1,
                          !.status = IF last THEN "returned" ELSE "reading"]
        at == StoreIndex(f.i, f.overlapping)
    IN  IF f.norm.set
        THEN IF d.kind # "num"
             THEN \* int(decoded_data) raises ValueError outside the try
                  [g EXCEPT !.status = "raised"]
             ELSE [next EXCEPT !.buffer[at] =
                       normalize(d.n, 1, -1, f.norm.mx, f.norm.mn)]
        ELSE IF d.kind = "num"
             THEN [next EXCEPT !.buffer[at] = d.n * Scale]
             ELSE \* float('') / float('abc'): ValueError, caught, printed
                  [next EXCEPT !.check = TRUE]

\* variant: the cap tested with > in place of >=
ReadlineStepOneMore(f, line) ==
    LET d == Decode(line)
        a == f.attempts + 1
        h == [f EXCEPT !.reads = @ + 1]
    IN  IF a > max_attempts THEN SlotStore(h, d, TRUE)
        ELSE IF d.kind = "empty" THEN [h EXCEPT !.attempts = a]
        ELSE SlotStore(h, d, FALSE)

\* lines 161-167: one readline of the while loop and what follows it;
\* reads counts the readline calls of the whole call
ReadlineStep(f, line) ==
    LET d == Decode(line)
        a == f.attempts + 1
        h == [f EXCEPT !.reads = @ + 1]
    IN  IF a >= max_attempts THEN SlotStore(h, d, TRUE)
        ELSE IF d.kind = "empty" THEN [h EXCEPT !.attempts = a]
        ELSE SlotStore(h, d, FALSE)

\* nothing received yet: the set of samples received and whether the read
\* of some slot failed
NoCapture == [seen |-> {}, failed |-> FALSE]

\* the peer is not part of the run
PeerOff ==
    /\ record = FALSE
    /\ led = [R |-> "LOW", G |-> "LOW", B |-> "LOW"]
    /\ ppc = "off"
    /\ rxn = 0
    /\ samplesRead = 0
    /\ sampleBuffer = <<>>
    /\ idx = 0
    /\ lines = <<>>
    /\ captured = <<>>
    /\ stopped = FALSE

\* the calibration range the notebook printed, and the raw values at its
\* ends and at zero
PrintedRange == [mn |-> -553, mx |-> 839]

PrintedSamples == <<PrintedRange.mx, PrintedRange.mn, 0>>

\* ------------------------------------------------------------- decision
\* np.multiply(prediction, RECOG_MASK)
np_multiply(a, b) == [k \in DOMAIN a |-> a[k] * b[k]]

\* np.argmax: one pass from the left, keeping the first largest entry;
\* best is the 1-based position kept so far, the result is 0-based
RECURSIVE ArgmaxScanLast(_, _, _)
ArgmaxScanLast(v, k, best) ==
    IF k > Len(v) THEN best - 1
    ELSE ArgmaxScanLast(v, k + 1, IF v[k] >= v[best] THEN k ELSE best)

RECURSIVE ArgmaxScan(_, _, _)
ArgmaxScan(v, k, best) ==
    IF k > Len(v) THEN best - 1
    ELSE ArgmaxScan(v, k + 1, IF v[k] > v[best] THEN k ELSE best)

\* variant: the last largest entry wins
np_argmaxLast(v) == ArgmaxScanLast(v, 2, 1)

np_argmax(v) == ArgmaxScan(v, 2, 1)

\* lines 288-290 of tflite_process_data
Decide(prediction) ==
    LET result == np_multiply(prediction, RECOG_MASK)
    IN  [result |-> result,
         emotion |-> EMOTIONS[np_argmax(result) + 1],
         command |-> COMMANDS[np_argmax(result) + 1]]

\* the output printed in the notebook, [0.99700433 0.8471093 2.38675348
\* 1.45389081], rounded to units of 10^-4
PrintedVector == <<9970, 8471, 23868, 14539>>

Predictions == [1..4 -> 0..MaxProb] \cup {PrintedVector}

\* ------------------------------------------- single calls of the functions
\* normalize is applied elementwise to its first argument
normalizeArray(array, new_max, new_min, old_max, old_min) ==
    [k \in DOMAIN array |->
        normalize(array[k], new_max, new_min, old_max, old_min)]

NormRange == (-(MaxRaw + 2))..(MaxRaw + 2)

\* buffers the stand-alone refill starts from: raw samples 0 and 1
RefillBuffers == [1..RefillSize -> {0, Scale}]

\* the calibration ranges a capture can produce, and no normalization
RefillNorms ==
    {NoNorm} \cup {Norm(mx, mn) : mx \in RawVals, mn \in RawVals}

Idle == [fn |-> "none"]

CallInit ==
    /\ pc = "call"
    /\ arduino = "open"
    /\ tx = <<>>
    /\ cal = NoFrame
    /\ TUNING_MAX = 0 /\ TUNING_MIN = 0 /\ tuned = FALSE
    /\ tasks = <<>> /\ ready = <<>> /\ turn = 0
    /\ clock = 0 /\ longest = 0 /\ report = -1
    /\ prevWindow = [of |-> 0, data |-> <<>>]
    /\ capture = NoCapture
    /\ PeerOff
    /\ \/ \E b \in RefillBuffers, o \in 0..RefillSize, nm \in RefillNorms :
            /\ nm.set => nm.mn <= nm.mx
            /\ call = [fn |-> "arduino_read", buffer |-> b,
                       overlapping |-> o, norm |-> nm]
       \/ \E a \in [1..2 -> NormRange], mx \in NormRange, mn \in NormRange :
            call = [fn |-> "normalize", array |-> a, old_max |-> mx,
                    old_min |-> mn, done |-> FALSE, out |-> <<>>]
       \/ call = [fn |-> "normalize", array |-> PrintedSamples,
                  old_max |-> PrintedRange.mx, old_min |-> PrintedRange.mn,
                  done |-> FALSE, out |-> <<>>]
       \/ \E p \in Predictions :
            call = [fn |-> "decide", prediction |-> p, done |-> FALSE,
                    out |-> [result |-> <<>>, emotion |-> "", command |-> ""]]

callFrame == <<pc, arduino, tx, TUNING_MAX, TUNING_MIN, tuned, tasks, ready,
               turn, clock, longest, report, prevWindow>>

\* arduino_read(buffer, len(buffer), overlapping, norm) is entered
RefillCall ==
    /\ pc = "call" /\ call.fn = "arduino_read" /\ cal.status = "none"
    /\ cal' = ArduinoReadCall(call.buffer, Len(call.buffer),
                              call.overlapping, call.norm)
    /\ UNCHANGED <<callFrame, call,
                   capture, peerVars>>

\* one arduino.readline() of that call
RefillReadline ==
    /\ pc = "call" /\ cal.status = "reading"
    /\ \E line \in Lines : cal' = ReadlineStep(cal, line)
    /\ UNCHANGED <<callFrame, call,
                   capture, peerVars>>

\* normalize(array, 1, -1, old_max, old_min)
NormalizeCall ==
    /\ pc = "call" /\ call.fn = "normalize" /\ ~call.done
    /\ call' = [call EXCEPT !.done = TRUE,
                   !.out = normalizeArray(call.array, 1, -1,
                                          call.old_max, call.old_min)]
    /\ UNCHANGED <<callFrame, cal, capture, peerVars>>

\* the decision of one round on a given prediction
DecideCall ==
    /\ pc = "call" /\ call.fn = "decide" /\ ~call.done
    /\ call' = [call EXCEPT !.done = TRUE, !.out = Decide(call.prediction)]
    /\ UNCHANGED <<callFrame, cal, capture, peerVars>>

CallNext == RefillCall \/ RefillReadline \/ NormalizeCall \/ DecideCall

SpecCall == CallInit /\ [][CallNext]_vars

\* ------------------------------------------------------------- the session
Init ==
    /\ pc = "activate"
    /\ arduino = "unset"
    /\ tx = <<>>
    /\ cal = NoFrame
    /\ TUNING_MAX = 0 /\ TUNING_MIN = 0 /\ tuned = FALSE
    /\ tasks = <<>> /\ ready = <<>> /\ turn = 0
    /\ clock = 0 /\ longest = 0 /\ report = -1
    /\ prevWindow = [of |-> 0, data |-> <<>>]
    /\ call = Idle
    /\ capture = NoCapture
    /\ PeerOff

\* what the operator may type at "Type 'x' to Activate Arduino: "
OperatorInputs == {"x", "X", "n"}

\* str.lower on those inputs
Lower(c) == IF c = "X" THEN "x" ELSE c

\* lines 127-128: the command typed is written when its lower case is 'x'
\* variant: the lower-cased command is written, and the typed one after it
ActivationWriteBoth(command) ==
    IF Lower(command) = "x" THEN <<Lower(command), command>> ELSE <<>>

ActivationWrite(command) ==
    IF Lower(command) = "x" THEN <<command>> ELSE <<>>

\* arduino_activate (lines 118-134): the port opens or not; the command
\* typed is written when its lower case is 'x'
Activate ==
    /\ pc = "activate"
    /\ \/ /\ arduino' = "None"
          /\ tx' = tx
       \/ /\ arduino' = "open"
          /\ \E command \in OperatorInputs :
                tx' = tx \o ActivationWrite(command)
    /\ pc' = "calibrate"
    /\ UNCHANGED <<cal, TUNING_MAX, TUNING_MIN, tuned, tasks, ready, turn,
                   clock, longest, report, prevWindow, call,
                   capture, peerVars>>

\* whether arduino.readline() and arduino.write() work on the handle:
\* arduino_activate returns None when the port did not open (line 124)
\* variant: the handle of a port that did not open is used like an open one
HandleUsableAlways(a) == TRUE

HandleUsable(a) == a = "open"

\* lines 182-184, up to the first readline: without a handle the first
\* arduino.readline() raises and the cell ends
Calibrate ==
    /\ pc = "calibrate"
    /\ LET f == ArduinoReadCall(np_zeros(TuningSize), TuningSize, 0, NoNorm)
       IN  IF HandleUsable(arduino)
           THEN cal' = f /\ pc' = "calibrating"
           ELSE cal' = [NoFrame EXCEPT !.status = "raised"] /\ pc' = "run"
    /\ UNCHANGED <<arduino, tx, TUNING_MAX, TUNING_MIN, tuned, tasks, ready,
                   turn, clock, longest, report, prevWindow, call,
                   capture, peerVars>>

\* the capture's record after one readline: a slot that was completed by a
\* number adds that sample, a slot completed by anything else has failed
Received(c, before, after) ==
    IF Len(after.got) = Len(before.got) THEN c
    ELSE LET d == after.got[Len(after.got)]
         IN  IF d.kind = "num" THEN [c EXCEPT !.seen = @ \cup {d.n}]
             ELSE [c EXCEPT !.failed = TRUE]

\* one readline of the calibration capture; when the capture returns,
\* line 185 binds TUNING_MAX, TUNING_MIN = max(tuning_data), min(tuning_data)
CalibrateReadline ==
    /\ pc = "calibrating" /\ cal.status = "reading"
    /\ \E line \in Lines :
          LET f == ReadlineStep(cal, line)
          IN  /\ capture' = Received(capture, cal, f)
              /\ IF f.status = "returned"
                 THEN /\ TUNING_MAX' = SeqMax(f.buffer) \div Scale
                      /\ TUNING_MIN' = SeqMin(f.buffer) \div Scale
                      /\ tuned' = TRUE
                      /\ cal' = [NoFrame EXCEPT !.status = "returned"]
                      /\ pc' = "run"
                 ELSE /\ cal' = f
                      /\ UNCHANGED <<TUNING_MAX, TUNING_MIN, tuned, pc>>
    /\ UNCHANGED <<arduino, tx, tasks, ready, turn, clock, longest, report,
                   prevWindow, call, peerVars>>

NewTask == [status |-> "pending", frame |-> NoFrame, t0 |-> 0, wrote |-> <<>>]

\* lines 298-302: one turn of the launch loop, create_task then the
\* blocking time.sleep(0.6); after the last turn the coroutine awaits gather
Launch ==
    /\ pc = "run" /\ turn < rounds
    /\ tasks' = Append(tasks, NewTask)
    /\ ready' = Append(ready, turn + 1)
    /\ clock' = clock + LaunchSleep
    /\ turn' = turn + 1
    /\ pc' = IF turn + 1 = rounds THEN "gather" ELSE "run"
    /\ UNCHANGED <<arduino, tx, cal, TUNING_MAX, TUNING_MIN, tuned, longest,
                   report, prevWindow, call,
                   capture, peerVars>>

\* the event loop runs a handle only while no coroutine is running
\* variant: the loop also runs during the sleep between two launches
LoopRunsWhileLaunching == pc \in {"run", "gather", "raised", "reported"}

LoopRuns == pc \in {"gather", "raised", "reported"}

\* asyncio.gather's future is done: a task raised, or all have a result
GatherResolved(ts) ==
    \/ \E r \in DOMAIN ts : ts[r].status = "failed"
    \/ \A r \in DOMAIN ts : ts[r].status = "done"

\* the task at the head of the ready queue ends: its handle leaves the
\* queue, and the awaiting coroutine is scheduled behind the handles
\* already queued when this resolves the gather
Finish(r, st, f, w) ==
    LET ts == [tasks EXCEPT ![r] =
                  [status |-> st, frame |-> f, t0 |-> 0, wrote |-> w]]
    IN  /\ tasks' = ts
        /\ ready' = Tail(ready) \o
               (IF GatherResolved(ts) /\ ~GatherResolved(tasks)
                THEN <<0>> ELSE <<>>)
        /\ longest' = Max2(longest, clock' - tasks[r].t0)

\* tflite_process_data starts (lines 279-280, up to the first readline);
\* without a calibration range or a handle it raises at once
TaskStart(r) ==
    /\ LoopRuns /\ ready # <<>> /\ Head(ready) = r
    /\ tasks[r].status = "pending"
    /\ clock' = clock
    /\ IF tuned /\ HandleUsable(arduino)
       THEN LET f == ArduinoReadCall(np_zeros(BUFFER_SIZE), BUFFER_SIZE,
                         OVERLAPPED, Norm(TUNING_MAX, TUNING_MIN))
            IN  /\ tasks' = [tasks EXCEPT ![r] =
                       [@ EXCEPT !.frame = f, !.t0 = clock,
                          !.status = IF f.status = "returned"
                                     THEN "infer" ELSE "running"]]
                /\ UNCHANGED <<ready, longest>>
       ELSE Finish(r, "failed", NoFrame, <<>>)
    /\ UNCHANGED <<pc, arduino, tx, cal, TUNING_MAX, TUNING_MIN, tuned, turn,
                   report, prevWindow, call,
                   capture, peerVars>>

\* one readline of the round's refill
TaskReadline(r) ==
    /\ LoopRuns /\ ready # <<>> /\ Head(ready) = r
    /\ tasks[r].status = "running"
    /\ \E line \in Lines :
          LET f == ReadlineStep(tasks[r].frame, line)
          IN  /\ clock' = clock + ReadTicks(line)
              /\ IF f.status = "raised"
                 THEN Finish(r, "failed", f, <<>>)
                 ELSE /\ tasks' = [tasks EXCEPT ![r] =
                             [@ EXCEPT !.frame = f,
                                !.status = IF f.status = "returned"
                                           THEN "infer" ELSE "running"]]
                      /\ UNCHANGED <<ready, longest>>
    /\ UNCHANGED <<pc, arduino, tx, cal, TUNING_MAX, TUNING_MIN, tuned, turn,
                   report, prevWindow, call,
                   capture, peerVars>>

CommandBytes == {COMMANDS[k] : k \in DOMAIN COMMANDS}

\* the class probabilities the interpreter may return in a session
SessionPredictions ==
    {[j \in 1..4 |-> IF j = k THEN MaxProb ELSE 0] : k \in 1..4}

\* the bytes a round writes for the decision d (line 291)
\* variant: the command is written a second time
RoundWritesTwice(d) == <<d.command, d.command>>

RoundWrites(d) == <<d.command>>

\* lines 281-293: features and inference, which may raise, then the
\* decision and the command byte
TaskInfer(r) ==
    /\ LoopRuns /\ ready # <<>> /\ Head(ready) = r
    /\ tasks[r].status = "infer"
    /\ clock' = clock
    /\ prevWindow' = [of |-> r, data |-> tasks[r].frame.buffer]
    /\ \/ /\ Finish(r, "failed", NoFrame, <<>>)
          /\ tx' = tx
       \/ \E p \in SessionPredictions :
             LET w == RoundWrites(Decide(p))
             IN  /\ Finish(r, "done", NoFrame, w)
                 /\ tx' = tx \o w
    /\ UNCHANGED <<pc, arduino, cal, TUNING_MAX, TUNING_MIN, tuned, turn,
                   report, call,
                   capture, peerVars>>

\* the awaiting tflite_run may go on
\* variant: the coroutine goes on without awaiting the gather
GatherReadyNoWait(rdy) == TRUE

GatherReady(rdy) == rdy # <<>> /\ Head(rdy) = 0

\* lines 302-304: the await returns or raises; only when it returns is
\* the elapsed time printed
TfliteRunResume ==
    /\ pc = "gather" /\ GatherReady(ready)
    /\ ready' = SelectSeq(ready, LAMBDA h : h # 0)
    /\ IF \E r \in DOMAIN tasks : tasks[r].status = "failed"
       THEN pc' = "raised" /\ report' = report
       ELSE pc' = "reported" /\ report' = clock
    /\ UNCHANGED <<arduino, tx, cal, TUNING_MAX, TUNING_MIN, tuned, tasks,
                   turn, clock, longest, prevWindow, call,
                   capture, peerVars>>

Next ==
    \/ Activate
    \/ Calibrate
    \/ CalibrateReadline
    \/ Launch
    \/ \E r \in 1..rounds : TaskStart(r)
    \/ \E r \in 1..rounds : TaskReadline(r)
    \/ \E r \in 1..rounds : TaskInfer(r)
    \/ TfliteRunResume

Spec == Init /\ [][Next]_vars

\* ---------------------------------------------------------------- the peer
\* the sketch data_streaming: loop() and the interrupt handler onPDMdata().
\* tx is the line to the peer, rxn of its bytes were read by Serial.read().
\* A sample is modelled by its capture number, so that two samples of the
\* same value stay apart.
Levels == {"HIGH", "LOW"}

LedStates == [{"R", "G", "B"} -> Levels]

\* the bytes the line may carry: the commands, 'x', and two bytes the
\* sketch has no branch for
Bytes == CommandBytes \cup {"x", "X", "z"}

\* the digitalWrite calls of the branch for incomingByte, in order
\* variant: the branch of 'd' leaves LEDB alone
LedWritesShortD(b) ==
    IF b = "a" THEN <<<<"R", "HIGH">>, <<"G", "HIGH">>, <<"B", "LOW">>>>
    ELSE IF b = "b" THEN <<<<"R", "HIGH">>, <<"G", "LOW">>, <<"B", "HIGH">>>>
    ELSE IF b = "c" THEN <<<<"R", "LOW">>, <<"G", "HIGH">>, <<"B", "HIGH">>>>
    ELSE IF b = "d" THEN <<<<"R", "LOW">>, <<"G", "LOW">>>>
    ELSE <<>>

LedWrites(b) ==
    IF b = "a" THEN <<<<"R", "HIGH">>, <<"G", "HIGH">>, <<"B", "LOW">>>>
    ELSE IF b = "b" THEN <<<<"R", "HIGH">>, <<"G", "LOW">>, <<"B", "HIGH">>>>
    ELSE IF b = "c" THEN <<<<"R", "LOW">>, <<"G", "HIGH">>, <<"B", "HIGH">>>>
    ELSE IF b = "d" THEN <<<<"R", "LOW">>, <<"G", "LOW">>, <<"B", "LOW">>>>
    ELSE <<>>

\* the levels after the digitalWrite calls ws on the levels l
RECURSIVE DigitalWrites(_, _)
DigitalWrites(l, ws) ==
    IF ws = <<>> THEN l
    ELSE DigitalWrites([l EXCEPT ![ws[1][1]] = ws[1][2]], Tail(ws))

\* record after the branch for incomingByte
\* variant: the upper-case 'X' toggles as well
ToggleAnyCase(b, rec) == IF b \in {"x", "X"} THEN ~rec ELSE rec

Toggle(b, rec) == IF b = "x" THEN ~rec ELSE rec

\* the host is not part of the run: bytes arrive on the line from outside
HostOff ==
    /\ pc = "line"
    /\ arduino = "unset"
    /\ tx = <<>>
    /\ cal = NoFrame
    /\ TUNING_MAX = 0 /\ TUNING_MIN = 0 /\ tuned = FALSE
    /\ tasks = <<>> /\ ready = <<>> /\ turn = 0
    /\ clock = 0 /\ longest = 0 /\ report = -1
    /\ prevWindow = [of |-> 0, data |-> <<>>]
    /\ call = Idle
    /\ capture = NoCapture

\* the sketch after setup(): the globals as initialised (lines 341-345);
\* the sketch never sets the three LED pins before the first command, so
\* their levels are any of ls
PeerOn(ls) ==
    /\ record = FALSE
    /\ led \in ls
    /\ ppc = "button"
    /\ rxn = 0
    /\ samplesRead = 0
    /\ sampleBuffer = [j \in 1..MaxBatch |-> 0]
    /\ idx = 0
    /\ lines = <<>>
    /\ captured = <<>>
    /\ stopped = FALSE

hostVars == <<pc, arduino, tx, cal, TUNING_MAX, TUNING_MIN, tuned, tasks,
              ready, turn, clock, longest, report, prevWindow, call, capture>>

\* a byte arrives on the line
Receive(b) ==
    /\ pc = "line" /\ Len(tx) < MaxBytes
    /\ tx' = Append(tx, b)
    /\ UNCHANGED <<pc, arduino, cal, TUNING_MAX, TUNING_MIN, tuned, tasks,
                   ready, turn, clock, longest, report, prevWindow, call,
                   capture, peerVars>>

\* lines 367-370: readShieldButton() and the toggle on a click
LoopButton ==
    /\ ppc = "button"
    /\ \E clicked \in BOOLEAN :
          /\ record' = IF clicked THEN ~record ELSE record
          /\ stopped' = (stopped \/ (clicked /\ record))
    /\ ppc' = "serial"
    /\ UNCHANGED <<hostVars, led, rxn, samplesRead, sampleBuffer, idx, lines,
                   captured>>

\* lines 373-398: one pass of while (Serial.available()): the byte is read
\* and its branch runs to its end (LED_BUILTIN is back to LOW then), or
\* no byte is left and the loop goes on
LoopSerial ==
    /\ ppc = "serial"
    /\ IF rxn < Len(tx)
       THEN LET incomingByte == tx[rxn + 1]
            IN  /\ rxn' = rxn + 1
                /\ record' = Toggle(incomingByte, record)
                /\ stopped' = (stopped \/ (record /\ ~record'))
                /\ led' = DigitalWrites(led, LedWrites(incomingByte))
                /\ ppc' = ppc
       ELSE /\ ppc' = "samples"
            /\ UNCHANGED <<rxn, record, stopped, led>>
    /\ UNCHANGED <<hostVars, samplesRead, sampleBuffer, idx, lines, captured>>

\* lines 401-404: if (samplesRead), if (record), and the loop's int i = 0
LoopSamples ==
    /\ ppc = "samples"
    /\ ppc' = IF samplesRead = 0 THEN "button"
              ELSE IF record THEN "print" ELSE "clear"
    /\ idx' = 0
    /\ UNCHANGED <<hostVars, record, led, rxn, samplesRead, sampleBuffer,
                   lines, captured, stopped>>

\* lines 404-406: one test of i < samplesRead, and the println and i++
\* when it holds
LoopPrint ==
    /\ ppc = "print"
    /\ IF idx < samplesRead
       THEN /\ lines' = Append(lines, sampleBuffer[idx + 1])
            /\ idx' = idx + 1
            /\ ppc' = ppc
       ELSE /\ ppc' = "clear"
            /\ UNCHANGED <<lines, idx>>
    /\ UNCHANGED <<hostVars, record, led, rxn, samplesRead, sampleBuffer,
                   captured, stopped>>

\* line 409: samplesRead = 0, and loop() returns
LoopClear ==
    /\ ppc = "clear"
    /\ samplesRead' = 0
    /\ ppc' = "button"
    /\ UNCHANGED <<hostVars, record, led, rxn, sampleBuffer, idx, lines,
                   captured, stopped>>

\* onPDMdata() (lines 413-421), run as an interrupt between any two steps
\* of loop(): n new samples overwrite the head of sampleBuffer
onPDMdata ==
    /\ ppc # "off"
    /\ \E n \in 1..MaxBatch :
          /\ Len(captured) + n <= MaxCaptured
          /\ sampleBuffer' = [j \in DOMAIN sampleBuffer |->
                                IF j <= n THEN Len(captured) + j
                                ELSE sampleBuffer[j]]
          /\ samplesRead' = n
          /\ captured' = captured \o [j \in 1..n |-> record]
    /\ UNCHANGED <<hostVars, record, led, ppc, rxn, idx, lines, stopped>>

\* the sketch on a line that carries any bytes, the microphone silent
PeerInit == HostOff /\ PeerOn(LedStates)

PeerNext ==
    \/ \E b \in Bytes : Receive(b)
    \/ LoopButton
    \/ LoopSerial
    \/ LoopSamples

SpecPeer == PeerInit /\ [][PeerNext]_vars

\* the sketch with the microphone on; the line carries 'x' only
MicInit == HostOff /\ PeerOn({[p \in {"R", "G", "B"} |-> "LOW"]})

MicNext ==
    \/ Receive("x")
    \/ LoopButton
    \/ LoopSerial
    \/ LoopSamples
    \/ LoopPrint
    \/ LoopClear
    \/ onPDMdata

SpecMic == MicInit /\ [][MicNext]_vars

\* the host's writes and the sketch: the activation, then the command byte
\* of each round that runs to its end (line 291)
HostCommand ==
    /\ pc = "calibrate" /\ HandleUsable(arduino)
    /\ Len(SelectSeq(tx, LAMBDA b : b \in CommandBytes)) < rounds
    /\ \E p \in SessionPredictions : tx' = tx \o RoundWrites(Decide(p))
    /\ UNCHANGED <<pc, arduino, cal, TUNING_MAX, TUNING_MIN, tuned, tasks,
                   ready, turn, clock, longest, report, prevWindow, call,
                   capture, peerVars>>

LinkInit ==
    /\ pc = "activate"
    /\ arduino = "unset"
    /\ tx = <<>>
    /\ cal = NoFrame
    /\ TUNING_MAX = 0 /\ TUNING_MIN = 0 /\ tuned = FALSE
    /\ tasks = <<>> /\ ready = <<>> /\ turn = 0
    /\ clock = 0 /\ longest = 0 /\ report = -1
    /\ prevWindow = [of |-> 0, data |-> <<>>]
    /\ call = Idle
    /\ capture = NoCapture
    /\ PeerOn(LedStates)

LinkNext ==
    \/ Activate
    \/ HostCommand
    \/ LoopButton
    \/ LoopSerial
    \/ LoopSamples

SpecLink == LinkInit /\ [][LinkNext]_vars

\* ------------------------------------------------- claims on single calls
\* the stand-alone refill has returned and every slot got a numeric token
RefillAllNumeric ==
    /\ call.fn = "arduino_read"
    /\ cal.status = "returned"
    /\ \A j \in 1..Len(cal.got) : cal.got[j].kind = "num"

\* what arduino_read stores for the sample raw under the range nm
Stored(raw, nm) ==
    IF nm.set THEN normalize(raw, 1, -1, nm.mx, nm.mn) ELSE raw * Scale

\* C1: a refill in which every slot read a numeric token returns a buffer
\* of the same length whose entries from overlap on are the samples read,
\* in arrival order (normalized when a range is given, raw otherwise), and
\* whose first overlap entries are those the rotation put there.
C1_RefillResult ==
    RefillAllNumeric =>
        LET n == Len(call.buffer)
            o == call.overlapping
        IN  /\ Len(cal.buffer) = n
            /\ Len(cal.got) = n - o
            /\ \A j \in 1..(n - o) :
                   cal.buffer[o + j] = Stored(cal.got[j].n, call.norm)
            /\ \A k \in 1..o :
                   cal.buffer[k] = np_roll(call.buffer, o)[k]

C1_Witness ==
    /\ RefillAllNumeric
    /\ call.norm.set /\ call.norm.mn < call.norm.mx
    /\ call.overlapping = 1
    /\ call.buffer[Len(call.buffer)] # 0
    /\ Len(cal.got) >= 2
    /\ cal.got[1].n # cal.got[2].n

\* the stand-alone refill has shifted the buffer and stored nothing yet
RefillShifted ==
    /\ call.fn = "arduino_read"
    /\ cal.status # "none"
    /\ Len(cal.got) = 0

\* C4 as stated: the shift rotates left, s[i] = b[(i + overlap) mod n].
C4_LeftRotation ==
    RefillShifted =>
        LET n == Len(call.buffer)
        IN  \A i \in 0..(n - 1) :
                cal.buffer[i + 1] =
                    call.buffer[((i + call.overlapping) % n) + 1]

\* C4 amended: the shift rotates right, s[i] = b[(i - overlap) mod n], so
\* that the last overlap entries of b come first.
C4_RightRotation ==
    RefillShifted =>
        LET n == Len(call.buffer)
        IN  \A i \in 0..(n - 1) :
                cal.buffer[i + 1] =
                    call.buffer[((i + n - call.overlapping) % n) + 1]

C4_Witness ==
    /\ RefillShifted
    /\ call.overlapping = 1
    /\ call.buffer = [k \in 1..RefillSize |-> IF k = 1 THEN Scale ELSE 0]
    /\ cal.buffer[2] = Scale

\* C5: for old_min < old_max and the target range (-1, 1), normalize maps
\* old_min to -1 and old_max to 1 exactly, and is monotonic.
C5_NormalizeEndpointsMonotone ==
    (call.fn = "normalize" /\ call.done /\ call.old_min < call.old_max) =>
        /\ \A k \in DOMAIN call.array :
               /\ call.array[k] = call.old_min => call.out[k] = -Scale
               /\ call.array[k] = call.old_max => call.out[k] = Scale
        /\ \A j \in DOMAIN call.array : \A k \in DOMAIN call.array :
               call.array[j] <= call.array[k] => call.out[j] <= call.out[k]

C5_Witness ==
    /\ call.fn = "normalize" /\ call.done
    /\ call.old_min < call.old_max
    /\ call.array = <<call.old_min, call.old_max>>
    /\ call.out = <<-Scale, Scale>>

\* C7: the decision takes the lowest index i that maximizes p[i] * mask[i]
\* and uses it for both the label and the command; the printed vector gives
\* 'surprise' and 'c'.
C7_Decide ==
    (call.fn = "decide" /\ call.done) =>
        LET p == call.prediction
            s == [k \in 1..4 |-> p[k] * RECOG_MASK[k]]
        IN  /\ \E i \in 1..4 :
                   /\ \A j \in 1..4 : s[j] <= s[i]
                   /\ \A j \in 1..(i - 1) : s[j] < s[i]
                   /\ call.out.emotion = EMOTIONS[i]
                   /\ call.out.command = COMMANDS[i]
            /\ <<call.out.emotion, call.out.command>> \in
                   {<<"neutral", "a">>, <<"happy", "b">>,
                    <<"surprise", "c">>, <<"unpleasant", "d">>}
            /\ p = PrintedVector =>
                   call.out.emotion = "surprise" /\ call.out.command = "c"

\* a tie of the two largest weighted scores, won by the lower index
C7_Witness ==
    /\ call.fn = "decide" /\ call.done
    /\ call.prediction = <<0, 4, 3, 0>>
    /\ call.out.command = "b"

\* ------------------------------------------------- claims on the session
\* the arduino_read activations there are: the calibration's and one per
\* round that has entered its refill
Frames ==
    {cal} \cup {tasks[r].frame : r \in DOMAIN tasks}

\* the read of the slot f handled last failed: no numeric token
LastReadFailed(f) ==
    /\ Len(f.got) > 0
    /\ f.got[Len(f.got)].kind # "num"

\* C2 as stated: when the read of a slot fails, the refill prints a
\* diagnostic, leaves the slot as the shift left it and goes on; it does
\* not abort, neither in the calibration capture nor in a round (stated
\* here for a calibration range with min < max only).
C2_SoftFailure ==
    \A f \in Frames :
        (LastReadFailed(f) /\ (f.norm.set => f.norm.mn < f.norm.mx)) =>
            LET at == f.overlapping + Len(f.got)
            IN  /\ f.status # "raised"
                /\ f.fail \/ f.check
                /\ f.buffer[at] = np_roll(f.arg, f.overlapping)[at]

\* C3 as stated: the window of a round starts with the OVERLAPPED entries
\* the window of the round before it ended with (stated here for a
\* calibration range with min < max only).
C3_WindowsShareOverlap ==
    \A r \in DOMAIN tasks :
        (/\ r > 1 /\ tasks[r].status = "infer" /\ prevWindow.of = r - 1
         /\ tasks[r - 1].status = "done"
         /\ TUNING_MIN < TUNING_MAX) =>
            \A k \in 1..OVERLAPPED :
                tasks[r].frame.buffer[k] =
                    prevWindow.data[BUFFER_SIZE - OVERLAPPED + k]

\* C6 as stated: every sample a round stores in its window is in [-1, 1]
\* (stated here for a calibration range with min < max only).
C6_StoredSamplesInRange ==
    \A r \in DOMAIN tasks :
        LET f == tasks[r].frame
        IN  \A j \in 1..Len(f.got) :
                (f.got[j].kind = "num" /\ f.norm.mn < f.norm.mx) =>
                    /\ -Scale <= f.buffer[f.overlapping + j]
                    /\ f.buffer[f.overlapping + j] <= Scale

\* C8: a round that runs to completion has written exactly one byte, one
\* of 'a'..'d'; a round that aborted has written none; the link carries
\* one command byte per completed round, and no round writes 'x'.
C8_OneCommandPerRound ==
    /\ \A r \in DOMAIN tasks :
          /\ tasks[r].status = "done" =>
                Len(tasks[r].wrote) = 1 /\ tasks[r].wrote[1] \in CommandBytes
          /\ tasks[r].status # "done" => tasks[r].wrote = <<>>
    /\ Cardinality({k \in DOMAIN tx : tx[k] \in CommandBytes}) =
           Cardinality({r \in DOMAIN tasks : tasks[r].status = "done"})
    /\ \A k \in DOMAIN tx : tx[k] \notin CommandBytes => k = 1

C8_Witness ==
    /\ \E r \in DOMAIN tasks :
          tasks[r].status = "done" /\ tasks[r].wrote = <<"d">>
    /\ \E r \in DOMAIN tasks :
          tasks[r].status = "failed" /\ tasks[r].frame.status = "raised"
    /\ tx = <<"x", "d">>

\* C9 as stated: the elapsed time reported is the launch delays plus the
\* duration of the longest round.
C9_ElapsedIsLaunchPlusLongest ==
    report # -1 => report = rounds * LaunchSleep + longest

\* C10: the elapsed time is reported only once every launched round has
\* finished; while a round has failed and another is unfinished, nothing
\* is reported.
C10_ReportAfterAllRounds ==
    report # -1 =>
        /\ turn = rounds
        /\ \A r \in 1..rounds :
               r \in DOMAIN tasks /\ tasks[r].status \in {"done", "failed"}

C10_Witness ==
    /\ report # -1
    /\ longest > 0
    /\ \A r \in 1..rounds : tasks[r].status = "done"


\* C12: in every call of arduino_read, each slot takes at least one and at
\* most max_attempts readline calls, whatever the lines are, and the whole
\* refill of n slots makes at most n * max_attempts of them: while a slot is
\* being read fewer than max_attempts reads were made for it, every
\* completed slot accounts for one to max_attempts reads, and the call has
\* ended once the n-th slot is complete.
RefillSlots == Max2(cal.buffer_size - cal.overlapping, 0)

C12_BoundedReads ==
    (call.fn = "arduino_read" /\ cal.status # "none") =>
        /\ cal.attempts < max_attempts
        /\ cal.reads >= Len(cal.got) + cal.attempts
        /\ cal.reads <= Len(cal.got) * max_attempts + cal.attempts
        /\ cal.reads <= RefillSlots * max_attempts
        /\ Len(cal.got) <= RefillSlots
        /\ (cal.status = "reading" => Len(cal.got) < RefillSlots)
        /\ (cal.status = "returned" =>
               /\ Len(cal.got) = RefillSlots
               /\ cal.reads >= RefillSlots)

\* a refill of several slots that returned after the peer sent nothing
C12_Witness ==
    /\ call.fn = "arduino_read" /\ cal.status = "returned"
    /\ RefillSlots >= 2
    /\ cal.reads = RefillSlots * max_attempts
    /\ \A k \in DOMAIN cal.got : cal.got[k].kind = "empty"
    /\ cal.fail


\* C11: a round is suspended at each of its serial reads, so that the reads
\* of two launched rounds can alternate: whenever a round is between two
\* reads of its refill and another launched round has not finished its own
\* refill, that other round can take the next step.
C11_ReadsCanAlternate ==
    \A r \in DOMAIN tasks : \A q \in DOMAIN tasks :
        (/\ r # q
         /\ tasks[r].status = "running" /\ tasks[r].frame.reads > 0
         /\ tasks[q].status \in {"pending", "running"})
        => ENABLED (TaskStart(q) \/ TaskReadline(q))

\* C17: when the port did not open, nothing was written to the peer, no
\* handle is held, and neither the calibration capture nor any round has
\* read a line or written a byte, at any later point of the session.
C17_OpenFailureIsFatal ==
    arduino = "None" =>
        /\ pc # "activate"
        /\ tx = <<>>
        /\ ~tuned /\ capture = NoCapture
        /\ cal.status \in {"none", "raised"}
        /\ cal.reads = 0 /\ cal.got = <<>>
        /\ report = -1
        /\ \A r \in DOMAIN tasks :
              /\ tasks[r].status \in {"pending", "failed"}
              /\ tasks[r].frame = NoFrame
              /\ tasks[r].wrote = <<>>

\* the port did not open and the session went on to its end
C17_Witness ==
    /\ arduino = "None" /\ pc = "raised"
    /\ cal.status = "raised"
    /\ Len(tasks) = rounds
    /\ \A r \in DOMAIN tasks : tasks[r].status = "failed"

\* the command bytes of the rounds 1..k, in launch order
RECURSIVE WroteUpTo(_)
WroteUpTo(k) == IF k = 0 THEN <<>> ELSE WroteUpTo(k - 1) \o tasks[k].wrote

\* C19: no round starts before all the rounds are launched; a round starts
\* only when every round launched before it has ended, so at most one round
\* is between its start and its end and the reads of two rounds never
\* alternate; the command bytes on the transport are those of the rounds in
\* launch order.
C19_RoundsRunInLaunchOrder ==
    /\ (\E r \in DOMAIN tasks : tasks[r].status # "pending")
          => (turn = rounds /\ Len(tasks) = rounds)
    /\ \A r \in DOMAIN tasks : \A q \in DOMAIN tasks :
          (r < q /\ tasks[q].status # "pending")
              => tasks[r].status \in {"done", "failed"}
    /\ Cardinality({r \in DOMAIN tasks :
                       tasks[r].status \in {"running", "infer"}}) <= 1
    /\ SelectSeq(tx, LAMBDA b : b \in CommandBytes) = WroteUpTo(Len(tasks))

\* all the rounds ran and wrote different commands
C19_Witness ==
    /\ Len(tasks) = rounds /\ rounds >= 2
    /\ \A r \in DOMAIN tasks : tasks[r].status = "done"
    /\ tasks[1].wrote # tasks[2].wrote
    /\ Len(tx) = rounds + 1

\* C20: whenever a round normalizes a sample, TUNING_MIN < TUNING_MAX.
C20_RangeNotDegenerate ==
    \A r \in DOMAIN tasks :
        (/\ tasks[r].frame.norm.set
         /\ \E k \in DOMAIN tasks[r].frame.got :
               tasks[r].frame.got[k].kind = "num")
        => TUNING_MIN < TUNING_MAX


\* the largest and the smallest member of a finite non-empty set of integers
SetMax(S) == CHOOSE m \in S : \A v \in S : v <= m

SetMin(S) == CHOOSE m \in S : \A v \in S : m <= v

\* C18 as stated: once calibrated, and through all the rounds, TUNING_MAX and
\* TUNING_MIN are the largest and the smallest raw sample the calibration
\* capture received, and no other value contributes.
C18_RangeOfReceivedSamples ==
    tuned =>
        /\ capture.seen # {}
        /\ TUNING_MAX = SetMax(capture.seen)
        /\ TUNING_MIN = SetMin(capture.seen)

\* C18: once calibrated, and through all the rounds, TUNING_MAX and
\* TUNING_MIN are the largest and the smallest entry of the capture buffer:
\* of the raw samples received together with 0.0 when the read of some slot
\* failed and left the slot at its initial value.
C18_RangeOfCaptureBuffer ==
    tuned =>
        LET S == capture.seen \cup (IF capture.failed THEN {0} ELSE {})
        IN  /\ S # {}
            /\ TUNING_MAX = SetMax(S)
            /\ TUNING_MIN = SetMin(S)

\* a capture in which one slot failed and the other received the largest
\* raw value, followed by a round that ran to its end
C18_Witness ==
    /\ tuned /\ capture.failed /\ capture.seen = {MaxRaw}
    /\ TUNING_MIN = 0 /\ TUNING_MAX = MaxRaw
    /\ \E r \in DOMAIN tasks : tasks[r].status = "done"


\* a normalize call on the printed samples with the printed range returned
PrintedCallDone ==
    /\ call.fn = "normalize" /\ call.done
    /\ call.array = PrintedSamples
    /\ call.old_max = PrintedRange.mx /\ call.old_min = PrintedRange.mn

\* C16 as stated: with the range (-553, 839), 839 normalizes to 1.0, -553
\* to -1.0 and 0 to -0.0459 (within 0.0005).
C16_ZeroMapsNearMinus459 ==
    PrintedCallDone =>
        /\ call.out[1] = Scale
        /\ call.out[2] = -Scale
        /\ -(464 * (Scale \div 10000)) <= call.out[3]
        /\ call.out[3] <= -(454 * (Scale \div 10000))

\* C16: with the range (-553, 839), 839 normalizes to 1.0, -553 to -1.0 and
\* 0 to -0.2055 (within 0.0005).
C16_ZeroMapsNearMinus2055 ==
    PrintedCallDone =>
        /\ call.out[1] = Scale
        /\ call.out[2] = -Scale
        /\ -(2060 * (Scale \div 10000)) <= call.out[3]
        /\ call.out[3] <= -(2050 * (Scale \div 10000))

\* the call returned; 0 became 1683 / 8192 below zero, the float16 next to
\* -143 / 696
C16_Witness ==
    /\ PrintedCallDone
    /\ call.out[3] = -(1683 * (Scale \div 8192))


\* ---------------------------------------------------- claims on the peer
\* the latest of the first k bytes of the line that is a command, "" if none
RECURSIVE LastCommand(_)
LastCommand(k) ==
    IF k = 0 THEN ""
    ELSE IF tx[k] \in CommandBytes THEN tx[k] ELSE LastCommand(k - 1)

\* the levels the branch of the command c leaves, from the levels l
Indicator(c, l) == DigitalWrites(l, LedWrites(c))

\* C13: once the sketch has processed a command byte, the levels of LEDR,
\* LEDG, LEDB are those the branch of the latest command processed leaves,
\* whatever the levels were before; the four commands leave four different
\* triples; and processing 'x' or a byte without a branch changes none of
\* the three levels.
C13_IndicatorFollowsLastCommand ==
    /\ [](LastCommand(rxn) # "" =>
             \A l \in LedStates : led = Indicator(LastCommand(rxn), l))
    /\ [](\A a \in CommandBytes : \A b \in CommandBytes : \A l \in LedStates :
             a # b => Indicator(a, l) # Indicator(b, l))
    /\ [][(rxn' = rxn + 1 /\ tx[rxn + 1] \notin CommandBytes) => led' = led]_vars

\* 'c', then 'x' and a byte without a branch were processed: the levels
\* are those of 'c'
C13_Witness ==
    /\ pc = "line" /\ tx = <<"c", "x", "z">> /\ rxn = 3
    /\ led = [p \in {"R", "G", "B"} |-> IF p = "R" THEN "LOW" ELSE "HIGH"]

\* whether the capture number s is among the lines printed
Printed(s) == \E k \in DOMAIN lines : lines[k] = s

\* C14: as long as record has not been switched off, every sample captured
\* with record set is printed exactly once and in capture order: the lines
\* printed are in capture order without a repeat, no sample captured with
\* record set is passed over by a later one, none is left out when loop()
\* has nothing more to print, and nothing is printed before record is set.
C14_EverySampleOnceInOrder ==
    ~stopped =>
        /\ \A j \in DOMAIN lines : \A k \in DOMAIN lines :
              j < k => lines[j] < lines[k]
        /\ \A s \in DOMAIN captured :
              (captured[s] /\ \E k \in DOMAIN lines : lines[k] > s)
                  => Printed(s)
        /\ (ppc = "button" /\ samplesRead = 0)
              => \A s \in DOMAIN captured : captured[s] => Printed(s)
        /\ (~record => lines = <<>>)

\* C15 as stated: an activation that opened the port has written exactly
\* one 'x', as the first byte of the line, and no 'x' is written later.
C15_ActivationWritesOneX ==
    arduino = "open" =>
        /\ tx # <<>>
        /\ tx[1] = "x"
        /\ \A k \in DOMAIN tx : k > 1 => tx[k] # "x"

\* C15: an activation that opened the port has written at most one byte,
\* 'x' or 'X', as the first byte of the line; every later byte of the host
\* is a command; and the sketch toggles record when it processes 'x' and
\* leaves it when it processes any other byte, 'X' included.
C15_ActivationWritesAtMostOne ==
    /\ [](arduino = "open" =>
             \A k \in DOMAIN tx :
                 \/ tx[k] \in CommandBytes
                 \/ k = 1 /\ tx[k] \in {"x", "X"})
    /\ [](arduino # "open" => tx = <<>>)
    /\ [][rxn' = rxn + 1 =>
             record' = (IF tx[rxn + 1] = "x" THEN ~record ELSE record)]_vars

\* the activation wrote 'x', two rounds wrote their commands, the sketch
\* processed the three bytes and is in record mode
C15_Witness ==
    /\ arduino = "open" /\ pc = "calibrate"
    /\ Len(tx) = 3 /\ tx[1] = "x" /\ rxn = 3
    /\ record /\ ~stopped


\* C21: in a call of arduino_read, 'Fail to Retrieve Data...' was printed
\* for the slot completed last if and only if the while loop ended on an
\* empty token, which it does only when all max_attempts reads of the slot
\* were empty; it was not printed when the slot ended on a token that is
\* not empty.
C21_DiagnosticIffAllEmpty ==
    (call.fn = "arduino_read" /\ Len(cal.got) > 0) =>
        (cal.fail <=> cal.got[Len(cal.got)].kind = "empty")


\* the byte the activation wrote, which is when it printed
\* 'Success Activated!': the first byte of the line unless that is the
\* command of a round
ActivationWrote == tx # <<>> /\ tx[1] \notin CommandBytes

\* C22: whenever the activation reported success, the byte it wrote is one
\* whose branch in the sketch flips record, so that record is flipped once
\* the sketch has processed it.
C22_ActivationByteToggles ==
    (arduino = "open" /\ ActivationWrote) =>
        Toggle(tx[1], record) # record

====
